---------------------------- MODULE Spec2Model ----------------------------
(***************************************************************************)
(* A model of the console chess engine of src/chess.py: the pieces' move   *)
(* generators, the board services (move_piece, copy, is_in_check,          *)
(* is_square_under_attack) and the session loop Game.play with             *)
(* filter_self_checks, execute_move and promote_pawn.                      *)
(*                                                                         *)
(* A square is the Python tuple (x, y): x the row 0..7 (row 0 is black's   *)
(* back rank, row 7 white's), y the column 0..7 (column 0 is file a).      *)
(* A move list is modelled by the set of its elements: the code reads its  *)
(* lists only through `in` and through their emptiness.                    *)
(***************************************************************************)
EXTENDS Integers, Sequences, FiniteSets, TLC

\* ------------------------------------------------------------------------
\* Bounds of the exploration
\* ------------------------------------------------------------------------

\* Number of plies the players choose freely once their plan is played out.
MaxFree == 1

\* ------------------------------------------------------------------------
\* Pieces and boards
\* ------------------------------------------------------------------------

Colors == {"white", "black"}

PromotionKinds == {"Queen", "Rook", "Bishop", "Knight"}

\* An empty cell of the grid (Python None).
None == [kind |-> "None", color |-> "none", has_moved |-> FALSE]

\* ChessPiece.__init__: a fresh piece has has_moved = False.
ChessPiece(kind, color) == [kind |-> kind, color |-> color, has_moved |-> FALSE]

\* The absent last move (Python None).
NoMove == << >>

\* `0 <= new_x < 8 and 0 <= new_y < 8`
OnBoard(x, y) == x \in 0..7 /\ y \in 0..7

\* A Python list of length 8 accepts the indices -8..7; any other raises
\* IndexError.
IndexOk(i) == i \in (0 - 8)..7

\* A negative index counts from the end of the list.
PyIdx(i) == IF i < 0 THEN i + 8 ELSE i

\* Board.get_piece: self.grid[x][y], for indices Python accepts.
get_piece(b, pos) == b[PyIdx(pos[1])][PyIdx(pos[2])]

Opponent(color) == IF color = "white" THEN "black" ELSE "white"

\* The result of a call: the value it returns, or the exception it raises.
Ok(m) == [err |-> "none", moves |-> m]
Raise(e) == [err |-> e, moves |-> {}]

BackRank(color) ==
  [y \in 0..7 |->
     ChessPiece(CASE y \in {0, 7} -> "Rook"
                  [] y \in {1, 6} -> "Knight"
                  [] y \in {2, 5} -> "Bishop"
                  [] y = 3 -> "Queen"
                  [] OTHER -> "King", color)]

\* Board.setup_board
setup_board ==
  [x \in 0..7 |->
     CASE x = 0 -> BackRank("black")
       [] x = 1 -> [y \in 0..7 |-> ChessPiece("Pawn", "black")]
       [] x = 6 -> [y \in 0..7 |-> ChessPiece("Pawn", "white")]
       [] x = 7 -> BackRank("white")
       [] OTHER -> [y \in 0..7 |-> None]]

\* ------------------------------------------------------------------------
\* Move generators (get_valid_moves of each piece class)
\* ------------------------------------------------------------------------

\* Pawn.get_valid_moves without the test `abs(l_from[0] - l_to[0]) == 2` of
\* line 101: the variant the en-passant claim is tested against.
Pawn_any_last_move(b, self, position, last_move) ==
  LET x == position[1]
      y == position[2]
      direction == IF self.color = "white" THEN 0 - 1 ELSE 1
      start_row == IF self.color = "white" THEN 6 ELSE 1
      new_x == x + direction
      forward ==
        IF new_x \in 0..7 /\ get_piece(b, <<new_x, y>>) = None
        THEN {<<new_x, y>>} \cup
             (IF x = start_row /\ get_piece(b, <<new_x + direction, y>>) = None
              THEN {<<new_x + direction, y>>} ELSE {})
        ELSE {}
      sides == {dy \in {0 - 1, 1} : y + dy \in 0..7}
      captures ==
        {<<new_x, y + dy>> : dy \in
           {d \in sides : /\ get_piece(b, <<new_x, y + d>>) # None
                          /\ get_piece(b, <<new_x, y + d>>).color # self.color}}
      en_passant ==
        IF last_move # NoMove
        THEN LET l_to == last_move[2]
                 l_piece == get_piece(b, l_to)
             IN IF /\ l_piece.kind = "Pawn"
                   /\ l_to[1] = x
                   /\ l_to[2] \in {y + 1, y - 1}
                THEN {<<new_x, l_to[2]>>} ELSE {}
        ELSE {}
  IN IF sides # {} /\ ~IndexOk(new_x)
     THEN Raise("IndexError")
     ELSE Ok(forward \cup captures \cup en_passant)

\* Pawn.get_valid_moves with the two-step test of line 86 taken out of the
\* one-step test of line 84: the variant the claim on the pawn's forward
\* moves is tested against.
Pawn_jumps_over(b, self, position, last_move) ==
  LET x == position[1]
      y == position[2]
      direction == IF self.color = "white" THEN 0 - 1 ELSE 1
      start_row == IF self.color = "white" THEN 6 ELSE 1
      new_x == x + direction
      forward ==
        (IF new_x \in 0..7 /\ get_piece(b, <<new_x, y>>) = None
         THEN {<<new_x, y>>} ELSE {}) \cup
        (IF x = start_row /\ get_piece(b, <<new_x + direction, y>>) = None
         THEN {<<new_x + direction, y>>} ELSE {})
      sides == {dy \in {0 - 1, 1} : y + dy \in 0..7}
      captures ==
        {<<new_x, y + dy>> : dy \in
           {d \in sides : /\ get_piece(b, <<new_x, y + d>>) # None
                          /\ get_piece(b, <<new_x, y + d>>).color # self.color}}
      en_passant ==
        IF last_move # NoMove
        THEN LET l_from == last_move[1]
                 l_to == last_move[2]
                 l_piece == get_piece(b, l_to)
             IN IF /\ l_piece.kind = "Pawn"
                   /\ (l_from[1] - l_to[1] = 2 \/ l_to[1] - l_from[1] = 2)
                   /\ l_to[1] = x
                   /\ l_to[2] \in {y + 1, y - 1}
                THEN {<<new_x, l_to[2]>>} ELSE {}
        ELSE {}
  IN IF sides # {} /\ ~IndexOk(new_x)
     THEN Raise("IndexError")
     ELSE Ok(forward \cup captures \cup en_passant)

\* Pawn.get_valid_moves. The capture loop reads (new_x, y + dy) without
\* testing new_x: for a white pawn on row 0 the index -1 reads row 7, for a
\* black pawn on row 7 the index 8 raises IndexError.
Pawn_get_valid_moves(b, self, position, last_move) ==
  LET x == position[1]
      y == position[2]
      direction == IF self.color = "white" THEN 0 - 1 ELSE 1
      start_row == IF self.color = "white" THEN 6 ELSE 1
      new_x == x + direction
      forward ==
        IF new_x \in 0..7 /\ get_piece(b, <<new_x, y>>) = None
        THEN {<<new_x, y>>} \cup
             (IF x = start_row /\ get_piece(b, <<new_x + direction, y>>) = None
              THEN {<<new_x + direction, y>>} ELSE {})
        ELSE {}
      sides == {dy \in {0 - 1, 1} : y + dy \in 0..7}
      captures ==
        {<<new_x, y + dy>> : dy \in
           {d \in sides : /\ get_piece(b, <<new_x, y + d>>) # None
                          /\ get_piece(b, <<new_x, y + d>>).color # self.color}}
      en_passant ==
        IF last_move # NoMove
        THEN LET l_from == last_move[1]
                 l_to == last_move[2]
                 l_piece == get_piece(b, l_to)
             IN IF /\ l_piece.kind = "Pawn"
                   /\ (l_from[1] - l_to[1] = 2 \/ l_to[1] - l_from[1] = 2)
                   /\ l_to[1] = x
                   /\ l_to[2] \in {y + 1, y - 1}
                THEN {<<new_x, l_to[2]>>} ELSE {}
        ELSE {}
  IN IF sides # {} /\ ~IndexOk(new_x)
     THEN Raise("IndexError")
     ELSE Ok(forward \cup captures \cup en_passant)

RECURSIVE Ray_takes_any(_, _, _, _, _, _, _)

\* The ray walk without the color test of line 127: the first occupied
\* square is added whatever stands on it. The variant the claim on the
\* sliding pieces is tested against.
Ray_takes_any(b, color, x, y, dx, dy, step) ==
  LET new_x == x + dx * step
      new_y == y + dy * step
  IN IF step > 7 \/ ~OnBoard(new_x, new_y) THEN {}
     ELSE IF b[new_x][new_y] = None
          THEN {<<new_x, new_y>>} \cup
               Ray_takes_any(b, color, x, y, dx, dy, step + 1)
          ELSE {<<new_x, new_y>>}

RECURSIVE Ray(_, _, _, _, _, _, _)

\* One ray of a sliding piece from step `step` on (the inner loop of lines
\* 120-129): an empty square is added and the walk goes on, an occupied one
\* ends it and is added when its occupant has the other color. Once a step
\* leaves the board every later one does, and nothing more is added.
Ray(b, color, x, y, dx, dy, step) ==
  LET new_x == x + dx * step
      new_y == y + dy * step
  IN IF step > 7 \/ ~OnBoard(new_x, new_y) THEN {}
     ELSE IF b[new_x][new_y] = None
          THEN {<<new_x, new_y>>} \cup Ray(b, color, x, y, dx, dy, step + 1)
          ELSE IF b[new_x][new_y].color # color THEN {<<new_x, new_y>>}
          ELSE {}

RookDirections == {<<0 - 1, 0>>, <<1, 0>>, <<0, 0 - 1>>, <<0, 1>>}

BishopDirections == {<<0 - 1, 0 - 1>>, <<0 - 1, 1>>, <<1, 0 - 1>>, <<1, 1>>}

\* Rook.get_valid_moves
Rook_get_valid_moves(b, self, position) ==
  UNION {Ray(b, self.color, position[1], position[2], d[1], d[2], 1) :
           d \in RookDirections}

\* Bishop.get_valid_moves
Bishop_get_valid_moves(b, self, position) ==
  UNION {Ray(b, self.color, position[1], position[2], d[1], d[2], 1) :
           d \in BishopDirections}

\* Queen.get_valid_moves: a rook's and a bishop's moves of the same color.
Queen_get_valid_moves(b, self, position) ==
  Rook_get_valid_moves(b, ChessPiece("Rook", self.color), position) \cup
  Bishop_get_valid_moves(b, ChessPiece("Bishop", self.color), position)

KnightJumps ==
  {<<0 - 2, 0 - 1>>, <<0 - 2, 1>>, <<0 - 1, 0 - 2>>, <<0 - 1, 2>>,
   <<1, 0 - 2>>, <<1, 2>>, <<2, 0 - 1>>, <<2, 1>>}

\* The squares at the given offsets that are on the board and not occupied
\* by a piece of the mover's color.
Leaps(b, color, position, offsets) ==
  {<<position[1] + d[1], position[2] + d[2]>> : d \in
     {o \in offsets :
        /\ OnBoard(position[1] + o[1], position[2] + o[2])
        /\ get_piece(b, <<position[1] + o[1], position[2] + o[2]>>).color
             # color}}

\* Knight.get_valid_moves
Knight_get_valid_moves(b, self, position) ==
  Leaps(b, self.color, position, KnightJumps)

KingDirections == RookDirections \cup BishopDirections


RECURSIVE get_valid_moves(_, _, _, _)
RECURSIVE ScanAttack(_, _, _, _)

\* Board.is_square_under_attack. `stack` is the set of colors whose
\* King.get_valid_moves is on the call stack, waiting in a castling test.
\* The answer is "yes", "no", or the exception a move generator raised.
is_square_under_attack(b, pos, color, stack) ==
  ScanAttack(b, pos, Opponent(color), stack)

\* `not is_square_under_attack(first) and not is_square_under_attack(second)`
\* of lines 213 and 218: the second call is made only when the first
\* answers "no", and an exception of either leaves the call.
NeitherAttacked(first, second, dest) ==
  IF first = "yes" THEN Ok({})
  ELSE IF first # "no" THEN Raise(first)
  ELSE IF second = "yes" THEN Ok({})
  ELSE IF second # "no" THEN Raise(second)
  ELSE Ok({dest})

\* One side of the castling test of King.get_valid_moves, lines 211-214 and
\* 216-219: the corner holds a rook that has not moved, the squares of
\* `between` are empty, and neither (x, y + step) nor (x, y + 2 step) is
\* attacked.
CastleSide(b, self, x, y, corner, between, step, stack) ==
  IF /\ b[x][corner] # None
     /\ b[x][corner].kind = "Rook"
     /\ ~b[x][corner].has_moved
     /\ \A j \in between : b[x][j] = None
  THEN NeitherAttacked(
         is_square_under_attack(b, <<x, y + step>>, self.color,
                                stack \cup {self.color}),
         is_square_under_attack(b, <<x, y + 2 * step>>, self.color,
                                stack \cup {self.color}),
         <<x, y + 2 * step>>)
  ELSE Ok({})

\* The moves King.get_valid_moves returns: the steps, then what the
\* king-side test adds, then what the queen-side test adds; an exception of
\* the king-side test leaves the call before the queen-side test.
KingResult(steps, kingside, queenside) ==
  IF kingside.err # "none" THEN kingside
  ELSE IF queenside.err # "none" THEN queenside
  ELSE Ok(steps \cup kingside.moves \cup queenside.moves)

\* King.get_valid_moves. The castling test asks is_square_under_attack,
\* which asks every enemy piece for its moves, the enemy king included. A
\* king whose own call is already on the stack runs the same code on the
\* same board again and so never returns: Python raises RecursionError.
King_get_valid_moves(b, self, position, stack) ==
  IF self.color \in stack THEN Raise("RecursionError")
  ELSE IF self.has_moved
  THEN Ok(Leaps(b, self.color, position, KingDirections))
  ELSE KingResult(
         Leaps(b, self.color, position, KingDirections),
         CastleSide(b, self, position[1], position[2], 7,
                    (position[2] + 1)..6, 1, stack),
         CastleSide(b, self, position[1], position[2], 0,
                    1..(position[2] - 1), 0 - 1, stack))

\* piece.get_valid_moves(board, position, last_move): the dispatch on the
\* class of the piece standing on `position`.
get_valid_moves(b, position, last_move, stack) ==
  LET self == get_piece(b, position)
  IN CASE self.kind = "Pawn" -> Pawn_get_valid_moves(b, self, position, last_move)
       [] self.kind = "Rook" -> Ok(Rook_get_valid_moves(b, self, position))
       [] self.kind = "Knight" -> Ok(Knight_get_valid_moves(b, self, position))
       [] self.kind = "Bishop" -> Ok(Bishop_get_valid_moves(b, self, position))
       [] self.kind = "Queen" -> Ok(Queen_get_valid_moves(b, self, position))
       [] self.kind = "King" -> King_get_valid_moves(b, self, position, stack)

\* What one piece's moves decide in the loops of is_in_check and
\* is_square_under_attack: the exception raised, "yes" when `pos` is among
\* the moves, else "no" (the loop goes on).
AttackVerdict(r, pos) ==
  IF r.err # "none" THEN r.err
  ELSE IF pos \in r.moves THEN "yes"
  ELSE "no"

\* The verdict of the first cell, in row-major order, that ends the loop;
\* "no" when none does.
FirstVerdict(decisive) ==
  IF decisive = {} THEN "no"
  ELSE (CHOOSE f \in decisive : \A o \in decisive : f[1] <= o[1])[2]

\* The double loop of is_in_check and is_square_under_attack, lines 339-345
\* and 358-364, over the cells 0..63 in row-major order (cell idx is row
\* idx \div 8, column idx % 8).
ScanAttack(b, pos, attacker, stack) ==
  FirstVerdict(
    {f \in {<<idx, AttackVerdict(get_valid_moves(b, <<idx \div 8, idx % 8>>,
                                                 NoMove, stack), pos)>> :
              idx \in {c \in 0..63 : b[c \div 8][c % 8].color = attacker}} :
       f[2] # "no"})

\* No square (Python None).
NoSquare == << >>

\* Board.find_king_position: the first king of the color in row-major order.
find_king_position(b, color) ==
  LET kings == {idx \in 0..63 : /\ b[idx \div 8][idx % 8].kind = "King"
                                /\ b[idx \div 8][idx % 8].color = color}
  IN IF kings = {} THEN NoSquare
     ELSE LET k == CHOOSE k \in kings : \A o \in kings : k <= o
          IN <<k \div 8, k % 8>>

\* Lines 336-345 of Board.is_in_check, once the king's square is known.
CheckAt(b, king_pos, color) ==
  IF king_pos = NoSquare THEN "no"
  ELSE ScanAttack(b, king_pos, Opponent(color), {})

\* Board.is_in_check
is_in_check(b, color) == CheckAt(b, find_king_position(b, color), color)

\* Board.move_piece without line 290 (`piece.has_moved = True`): the variant
\* the castling claims are tested against.
move_piece_keeps_flag(b, from_pos, to_pos) ==
  LET from_x == from_pos[1]
      from_y == from_pos[2]
      to_x == to_pos[1]
      to_y == to_pos[2]
      piece == b[from_x][from_y]
      direction == IF to_y > from_y THEN 1 ELSE 0 - 1
      rook_from == <<from_x, IF direction = 1 THEN 7 ELSE 0>>
      rook_to == <<from_x, to_y - direction>>
      castled ==
        IF piece.kind = "King" /\ (from_y - to_y = 2 \/ to_y - from_y = 2)
        THEN [[b EXCEPT ![rook_to[1]][rook_to[2]] = b[rook_from[1]][rook_from[2]]]
                EXCEPT ![rook_from[1]][rook_from[2]] = None]
        ELSE b
  IN IF piece = None THEN b
     ELSE [[castled EXCEPT ![to_x][to_y] = piece]
             EXCEPT ![from_x][from_y] = None]

\* Board.move_piece without the castling branch of lines 281-287: the
\* variant the claim on the rook's relocation is tested against.
move_piece_king_alone(b, from_pos, to_pos) ==
  IF b[from_pos[1]][from_pos[2]] = None THEN b
  ELSE [[b EXCEPT ![to_pos[1]][to_pos[2]] =
                    [b[from_pos[1]][from_pos[2]] EXCEPT !.has_moved = TRUE]]
          EXCEPT ![from_pos[1]][from_pos[2]] = None]

\* Board.move_piece: the grid after the call (unchanged when the source
\* square is empty and the call returns False).
move_piece(b, from_pos, to_pos) ==
  LET from_x == from_pos[1]
      from_y == from_pos[2]
      to_x == to_pos[1]
      to_y == to_pos[2]
      piece == b[from_x][from_y]
      direction == IF to_y > from_y THEN 1 ELSE 0 - 1
      rook_from == <<from_x, IF direction = 1 THEN 7 ELSE 0>>
      rook_to == <<from_x, to_y - direction>>
      castled ==
        IF piece.kind = "King" /\ (from_y - to_y = 2 \/ to_y - from_y = 2)
        THEN [[b EXCEPT ![rook_to[1]][rook_to[2]] = b[rook_from[1]][rook_from[2]]]
                EXCEPT ![rook_from[1]][rook_from[2]] = None]
        ELSE b
  IN IF piece = None THEN b
     ELSE [[castled EXCEPT ![to_x][to_y] = [piece EXCEPT !.has_moved = TRUE]]
             EXCEPT ![from_x][from_y] = None]

\* Board.copy: a new grid holding a deep copy of every piece.
copy(b) ==
  [i \in 0..7 |-> [j \in 0..7 |->
     IF b[i][j] # None
     THEN [kind |-> b[i][j].kind, color |-> b[i][j].color,
           has_moved |-> b[i][j].has_moved]
     ELSE None]]

\* Boards of piece objects. Python's grid holds references: `refs` gives for
\* every cell the identity of the object it refers to (0 for None) and
\* `objs` the fields of every object. The objects of the live board have the
\* identities 1..64, by the cell they stand on.
Live(b) ==
  [refs |-> [i \in 0..7 |-> [j \in 0..7 |->
               IF b[i][j] = None THEN 0 ELSE 8 * i + j + 1]],
   objs |-> [id \in 1..128 |->
               IF id <= 64 THEN b[(id - 1) \div 8][(id - 1) % 8] ELSE None]]

\* The board a grid of references shows: the fields of the object each cell
\* refers to.
View(objs, refs) ==
  [i \in 0..7 |-> [j \in 0..7 |->
     IF refs[i][j] = 0 THEN None ELSE objs[refs[i][j]]]]

\* A copy of the board that puts the same piece objects into a new grid
\* (`new_board.grid[i][j] = piece`): the variant the claim on the
\* independence of the copy is tested against.
copy_refs_shared(hb) == hb

\* Board.copy on references: a new grid, and for every piece a new object
\* (copy.deepcopy, identities 65..128) with the fields of the original.
copy_refs(hb) ==
  [refs |-> [i \in 0..7 |-> [j \in 0..7 |->
               IF hb.refs[i][j] = 0 THEN 0 ELSE hb.refs[i][j] + 64]],
   objs |-> [id \in 1..128 |->
               IF id <= 64 THEN hb.objs[id] ELSE hb.objs[id - 64]]]

\* Board.move_piece on references: the cells of this board's grid are
\* reassigned and the moved object's has_moved is set, for every board that
\* refers to that object.
move_piece_refs(hb, from_pos, to_pos) ==
  LET from_x == from_pos[1]
      from_y == from_pos[2]
      to_x == to_pos[1]
      to_y == to_pos[2]
      piece == hb.refs[from_x][from_y]
      direction == IF to_y > from_y THEN 1 ELSE 0 - 1
      rook_from == <<from_x, IF direction = 1 THEN 7 ELSE 0>>
      rook_to == <<from_x, to_y - direction>>
      castled ==
        IF /\ hb.objs[piece].kind = "King"
           /\ (from_y - to_y = 2 \/ to_y - from_y = 2)
        THEN [[hb.refs EXCEPT ![rook_to[1]][rook_to[2]] =
                                 hb.refs[rook_from[1]][rook_from[2]]]
                EXCEPT ![rook_from[1]][rook_from[2]] = 0]
        ELSE hb.refs
  IN IF piece = 0 THEN hb
     ELSE [refs |-> [[castled EXCEPT ![to_x][to_y] = piece]
                       EXCEPT ![from_x][from_y] = 0],
           objs |-> [hb.objs EXCEPT ![piece].has_moved = TRUE]]

\* The body of the loop of Game.filter_self_checks for one candidate: "no"
\* when the mover is not in check on the simulated board (the candidate is
\* kept), "yes" when it is, or the exception raised.
SelfCheck(b, player, from_pos, move) ==
  is_in_check(move_piece(copy(b), from_pos, move), player)

\* Game.filter_self_checks appending every candidate, whatever is_in_check
\* answers: the variant the claim on the legality step is tested against.
Filtered_keeps_all(verdicts) ==
  [errs |-> {v[2] : v \in verdicts} \ {"yes", "no"},
   moves |-> {v[1] : v \in verdicts}]

\* What Game.filter_self_checks makes of the verdicts <<move, verdict>> of
\* its candidates.
Filtered(verdicts) ==
  [errs |-> {v[2] : v \in verdicts} \ {"yes", "no"},
   moves |-> {v[1] : v \in {w \in verdicts : w[2] = "no"}}]

\* Game.filter_self_checks. An exception raised for a candidate ends the
\* call; which candidate comes first depends on the list's order, so the
\* model keeps every exception some candidate raises.
filter_self_checks(b, player, from_pos, valid_moves) ==
  Filtered({<<m, SelfCheck(b, player, from_pos, m)>> : m \in valid_moves})

\* ------------------------------------------------------------------------
\* Game: the session
\* ------------------------------------------------------------------------

\* The en-passant test of line 461 without `self.board.get_piece(to_pos) is
\* None`: the variant the claim on the pieces a move removes is tested
\* against.
IsEnPassant_any_diagonal(b, from_pos, to_pos) ==
  /\ get_piece(b, from_pos).kind = "Pawn"
  /\ to_pos[2] # from_pos[2]

\* The en-passant test of Game.execute_move, line 461.
IsEnPassant(b, from_pos, to_pos) ==
  /\ get_piece(b, from_pos).kind = "Pawn"
  /\ to_pos[2] # from_pos[2]
  /\ get_piece(b, to_pos) = None

\* Game.execute_move without the en-passant removal of lines 461-463: the
\* variant the claim on the number of pieces is tested against.
execute_move_plain(b, from_pos, to_pos) == move_piece(b, from_pos, to_pos)

\* Game.execute_move, lines 460-465: the grid after the en-passant removal
\* and Board.move_piece.
execute_move(b, from_pos, to_pos) ==
  LET cleared == IF IsEnPassant(b, from_pos, to_pos)
                 THEN [b EXCEPT ![from_pos[1]][to_pos[2]] = None]
                 ELSE b
  IN move_piece(cleared, from_pos, to_pos)

\* The promotion test of line 469 asking for row 0 only: the variant the
\* promotion claim is tested against.
NeedsPromotion_row0(piece, to_pos) ==
  piece.kind = "Pawn" /\ to_pos[1] = 0

\* The promotion test of Game.execute_move, line 469, on the selected piece.
NeedsPromotion(piece, to_pos) ==
  piece.kind = "Pawn" /\ (to_pos[1] = 0 \/ to_pos[1] = 7)

\* What the user may type at the promotion prompt, upper-cased; "X" stands
\* for every other input.
Choices == {"Q", "R", "B", "N", "X"}

ChoiceKind(typed) ==
  CASE typed = "Q" -> "Queen"
    [] typed = "R" -> "Rook"
    [] typed = "B" -> "Bishop"
    [] typed = "N" -> "Knight"
    [] OTHER -> "None"

\* Game.promote_pawn, line 491, for a valid choice.
promote_pawn(b, pos, typed, player) ==
  [b EXCEPT ![pos[1]][pos[2]] = ChessPiece(ChoiceKind(typed), player)]

\* Game.switch_player leaving the player as it is: the variant the claim on
\* the alternation of the players is tested against.
switch_player_stays(player) == player

\* Game.switch_player
switch_player(player) == IF player = "white" THEN "black" ELSE "white"

\* The selection test of line 414 without `piece.color !=
\* self.current_player`: the variant the claim on rejected requests is
\* tested against.
OwnPiece_any_color(b, pos, player) == get_piece(b, pos) # None

\* The selection test of Game.play, line 414.
OwnPiece(b, pos, player) ==
  get_piece(b, pos) # None /\ get_piece(b, pos).color = player

\* The squares Game.get_position returns: it asks again until the typed
\* square is on the board.
Squares == {<<x, y>> : x \in 0..7, y \in 0..7}

M(fx, fy, tx, ty) == <<<<fx, fy>>, <<tx, ty>>>>

\* The lines the two players follow before they choose freely. Each is a
\* sequence of requests from the opening position.
\* 1.e3 e6 2.Qg4 Ke7 3.h3 Kd6 4.g3 c5 5.f3 c4 6.Kf2 Kc5 7.Kg2 Kb4 8.d4 cxd3
PlanPin ==
  << M(6,4,5,4), M(1,4,2,4), M(7,3,4,6), M(0,4,1,4), M(6,7,5,7), M(1,4,2,3),
     M(6,6,5,6), M(1,2,3,2), M(6,5,5,5), M(3,2,4,2), M(7,4,6,5), M(2,3,3,2),
     M(6,5,6,6), M(3,2,4,1), M(6,3,4,3), M(4,2,5,3) >>

\* 1.e4 d5 2.exd5 Qxd5 3.Nf3 a6 4.Bd3 Qe6+ 5.O-O
PlanCastleFromCheck ==
  << M(6,4,4,4), M(1,3,3,3), M(4,4,3,3), M(0,3,3,3), M(7,6,5,5), M(1,0,2,0),
     M(7,5,5,3), M(3,3,2,4), M(7,4,7,6) >>

\* 1.e4 e5 2.Nf3 Nc6 3.Bc4 d6 4.Ke2 a6 5.Ke1 a5
PlanKingReturns ==
  << M(6,4,4,4), M(1,4,3,4), M(7,6,5,5), M(0,1,2,2), M(7,5,4,2), M(1,3,2,3),
     M(7,4,6,4), M(1,0,2,0), M(6,4,7,4), M(2,0,3,0) >>

\* 1.e4 e5 2.Nf3 Nc6 3.Bc4 d6 4.Rg1 a6 5.Rh1 a5
PlanRookReturns ==
  << M(6,4,4,4), M(1,4,3,4), M(7,6,5,5), M(0,1,2,2), M(7,5,4,2), M(1,3,2,3),
     M(7,7,7,6), M(1,0,2,0), M(7,6,7,7), M(2,0,3,0) >>

\* 1.Nf3 Nf6 2.g3 g6 3.Bg2 (and Black may try Bg7)
PlanFianchetto ==
  << M(7,6,5,5), M(0,6,2,5), M(6,6,5,6), M(1,6,2,6), M(7,5,6,6) >>

\* 1.e4 e5 2.Nf3 Nc6 3.Bc4 d6 4.O-O
PlanCastle ==
  << M(6,4,4,4), M(1,4,3,4), M(7,6,5,5), M(0,1,2,2), M(7,5,4,2), M(1,3,2,3),
     M(7,4,7,6) >>

\* 1.e4 a6 2.e5 d5 3.exd6
PlanEnPassant ==
  << M(6,4,4,4), M(1,0,2,0), M(4,4,3,4), M(1,3,3,3), M(3,4,2,3) >>

\* 1.e4 a6 2.e5 d5 3.h3 f6 4.h4 f5
PlanEnPassantDeclined ==
  << M(6,4,4,4), M(1,0,2,0), M(4,4,3,4), M(1,3,3,3), M(6,7,5,7), M(1,5,2,5),
     M(5,7,4,7), M(2,5,3,5) >>

\* 1.h3 a5 2.h4 a4 3.h5 a3 4.h6 axb2 5.hxg7 bxa1 (and White may try gxh8)
PlanPromotion ==
  << M(6,7,5,7), M(1,0,3,0), M(5,7,4,7), M(3,0,4,0), M(4,7,3,7), M(4,0,5,0),
     M(3,7,2,7), M(5,0,6,1), M(2,7,1,6), M(6,1,7,0) >>

\* 1.Nf3 a5 2.e3 a4 3.Be2 a3 4.h3 axb2 5.h4 (and Black may try bxa1)
PlanBlackPromotes ==
  << M(7,6,5,5), M(1,0,3,0), M(6,4,5,4), M(3,0,4,0), M(7,5,6,4), M(4,0,5,0),
     M(6,7,5,7), M(5,0,6,1), M(5,7,4,7) >>

Plans ==
  {PlanPin, PlanCastleFromCheck, PlanKingReturns, PlanRookReturns,
   PlanFianchetto, PlanCastle, PlanEnPassant, PlanEnPassantDeclined,
   PlanPromotion, PlanBlackPromotes}

VARIABLES
  grid,            \* Game.board.grid
  current_player,  \* Game.current_player
  move_count,      \* Game.move_count
  last_move,       \* Game.last_move
  pc,              \* where Game.play waits: "select", "dest", "promote", "crashed"
  from_pos,        \* play's local from_pos
  to_pos,          \* play's local to_pos
  candidates,      \* play's local valid_moves as line 418 assigns it
  valid_moves,     \* play's local valid_moves as line 419 assigns it
  choice,          \* promote_pawn's local choice: the last answer typed
  outcome,         \* what the last request led to
  plan,            \* the line the players follow
  log              \* history: the requests committed so far

vars ==
  <<grid, current_player, move_count, last_move, pc, from_pos, to_pos,
    candidates, valid_moves, choice, outcome, plan, log>>

\* Game.__init__
Init ==
  /\ grid = setup_board
  /\ current_player = "white"
  /\ move_count = 0
  /\ last_move = NoMove
  /\ pc = "select"
  /\ from_pos = NoSquare
  /\ to_pos = NoSquare
  /\ candidates = {}
  /\ valid_moves = {}
  /\ choice = ""
  /\ outcome = "start"
  /\ plan \in Plans
  /\ log = << >>

\* The requests the players make: the next move of their plan, and once
\* the plan is played out any move, MaxFree times.
Planned(from, to) ==
  IF move_count < Len(plan)
  THEN <<from, to>> = plan[move_count + 1]
  ELSE move_count < Len(plan) + MaxFree

Playing == move_count < Len(plan) + MaxFree

\* The locals of Game.play are assigned anew in every turn of its loop before
\* they are read; the model clears them where the loop starts again.
LoopAgain ==
  /\ pc' = "select"
  /\ from_pos' = NoSquare
  /\ to_pos' = NoSquare
  /\ candidates' = {}
  /\ valid_moves' = {}

\* Game.play, lines 410-416: the typed square is empty or holds a piece of
\* the other player; the loop starts again.
SelectRejected(sq) ==
  /\ pc = "select"
  /\ Playing
  /\ ~OwnPiece(grid, sq, current_player)
  /\ outcome' = "rejected_selection"
  /\ LoopAgain
  /\ UNCHANGED <<grid, current_player, move_count, last_move, choice, plan, log>>

\* Game.play, lines 410-424: the typed square holds a piece of the player to
\* move. Its moves are generated and filtered; an exception ends the
\* program, an empty result starts the loop again, anything else leads to
\* the prompt for the destination.
SelectOwn(sq) ==
  /\ pc = "select"
  /\ Playing
  /\ OwnPiece(grid, sq, current_player)
  /\ \E cand \in {get_valid_moves(grid, sq, last_move, {})} :
       IF cand.err # "none"
       THEN /\ pc' = "crashed"
            /\ outcome' = cand.err
            /\ from_pos' = sq
            /\ UNCHANGED <<to_pos, candidates, valid_moves>>
       ELSE \E legal \in {filter_self_checks(grid, current_player, sq,
                                             cand.moves)} :
              IF legal.errs # {}
              THEN /\ pc' = "crashed"
                   /\ outcome' \in legal.errs
                   /\ from_pos' = sq
                   /\ candidates' = cand.moves
                   /\ UNCHANGED <<to_pos, valid_moves>>
              ELSE IF legal.moves = {}
              THEN /\ outcome' = "no_valid_moves"
                   /\ LoopAgain
              ELSE /\ outcome' = "selected"
                   /\ pc' = "dest"
                   /\ from_pos' = sq
                   /\ candidates' = cand.moves
                   /\ valid_moves' = legal.moves
                   /\ UNCHANGED to_pos
  /\ UNCHANGED <<grid, current_player, move_count, last_move, choice, plan, log>>

\* Game.play, lines 425-428: the typed destination is not in valid_moves.
DestRejected(sq) ==
  /\ pc = "dest"
  /\ sq \notin valid_moves
  /\ outcome' = "rejected_move"
  /\ LoopAgain
  /\ UNCHANGED <<grid, current_player, move_count, last_move, choice, plan, log>>

\* Game.play, lines 425-432, for a destination in valid_moves that needs no
\* promotion: execute_move, switch_player, move_count += 1.
DestMove(sq) ==
  /\ pc = "dest"
  /\ sq \in valid_moves
  /\ Planned(from_pos, sq)
  /\ ~NeedsPromotion(get_piece(grid, from_pos), sq)
  /\ grid' = execute_move(grid, from_pos, sq)
  /\ last_move' = <<from_pos, sq>>
  /\ current_player' = switch_player(current_player)
  /\ move_count' = move_count + 1
  /\ outcome' = "moved"
  /\ log' = Append(log, <<from_pos, sq>>)
  /\ LoopAgain
  /\ UNCHANGED <<choice, plan>>

\* Game.play, line 430, for a pawn arriving on row 0 or 7: execute_move
\* moves it and waits in promote_pawn for the choice.
DestPromotion(sq) ==
  /\ pc = "dest"
  /\ sq \in valid_moves
  /\ Planned(from_pos, sq)
  /\ NeedsPromotion(get_piece(grid, from_pos), sq)
  /\ to_pos' = sq
  /\ grid' = execute_move(grid, from_pos, sq)
  /\ last_move' = <<from_pos, sq>>
  /\ pc' = "promote"
  /\ outcome' = "promotion_prompt"
  /\ log' = Append(log, <<from_pos, sq>>)
  /\ UNCHANGED <<current_player, move_count, from_pos, candidates,
                 valid_moves, choice, plan>>

\* Game.promote_pawn, lines 488-490: any other input is asked again.
PromoteRejected(typed) ==
  /\ pc = "promote"
  /\ ChoiceKind(typed) = "None"
  /\ choice' = typed
  /\ outcome' = "rejected_choice"
  /\ UNCHANGED <<grid, current_player, move_count, last_move, pc, from_pos,
                 to_pos, candidates, valid_moves, plan, log>>

\* Game.promote_pawn, lines 480-492, then Game.play, lines 431-432.
PromoteDone(typed) ==
  /\ pc = "promote"
  /\ ChoiceKind(typed) # "None"
  /\ choice' = typed
  /\ grid' = promote_pawn(grid, to_pos, typed, current_player)
  /\ current_player' = switch_player(current_player)
  /\ move_count' = move_count + 1
  /\ outcome' = "moved"
  /\ LoopAgain
  /\ UNCHANGED <<last_move, plan, log>>

Next ==
  \/ \E sq \in Squares : SelectRejected(sq)
  \/ \E sq \in Squares : SelectOwn(sq)
  \/ \E sq \in Squares : DestRejected(sq)
  \/ \E sq \in Squares : DestMove(sq)
  \/ \E sq \in Squares : DestPromotion(sq)
  \/ \E typed \in Choices : PromoteRejected(typed)
  \/ \E typed \in Choices : PromoteDone(typed)

Spec == Init /\ [][Next]_vars

\* ------------------------------------------------------------------------
\* The move generators on their own
\* ------------------------------------------------------------------------
\* get_valid_moves is also called on boards no committed position shows: the
\* simulated boards of filter_self_checks, where a pawn may stand on its last
\* rank. This specification asks one piece for its moves on a small board:
\* `grid` is the board, `from_pos` the position of the piece asked,
\* `last_move` the last_move argument, `candidates` the list returned and
\* `outcome` the exception raised, if any.

\* The other pieces put on the board beside the piece asked.
MaxOthers == 1

EmptyGrid == [i \in 0..7 |-> [j \in 0..7 |-> None]]

\* A piece of the kind and color as the program has it on the square: one
\* that stands where setup_board put it may not have moved yet.
Placed(kind, color, sq, unmoved) ==
  [kind |-> kind, color |-> color, has_moved |-> ~unmoved]

\* The squares the program can have such a piece on, with has_moved as
\* given: a pawn never stands behind its start row and has moved exactly
\* when it has left it, any other piece that has not moved stands where
\* setup_board put it.
CanStand(kind, color, sq, unmoved) ==
  /\ kind = "Pawn" =>
       /\ IF color = "white" THEN sq[1] <= 6 ELSE sq[1] >= 1
       /\ unmoved <=> sq[1] = (IF color = "white" THEN 6 ELSE 1)
  /\ (kind # "Pawn" /\ unmoved) =>
       get_piece(setup_board, sq) = ChessPiece(kind, color)

InitPieces ==
  /\ \E kind \in {"Pawn", "Rook", "Knight", "Bishop", "Queen", "King"},
        color \in Colors, sq \in Squares, unmoved \in BOOLEAN :
       /\ CanStand(kind, color, sq, unmoved)
       /\ grid = [EmptyGrid EXCEPT ![sq[1]][sq[2]] =
                                      Placed(kind, color, sq, unmoved)]
       /\ from_pos = sq
       /\ current_player = color
  /\ move_count = 0
  /\ last_move = NoMove
  /\ pc = "placed"
  /\ to_pos = NoSquare
  /\ candidates = {}
  /\ valid_moves = {}
  /\ choice = ""
  /\ outcome = "placed"
  /\ plan = << >>
  /\ log = << >>

Others == Cardinality({sq \in Squares : get_piece(grid, sq) # None}) - 1

\* A rook of either color is put on an empty square.
PlaceRook ==
  /\ pc = "placed"
  /\ last_move = NoMove
  /\ Others < MaxOthers
  /\ \E color \in Colors, sq \in Squares, unmoved \in BOOLEAN :
       /\ get_piece(grid, sq) = None
       /\ CanStand("Rook", color, sq, unmoved)
       /\ grid' = [grid EXCEPT ![sq[1]][sq[2]] =
                     Placed("Rook", color, sq, unmoved)]
  /\ UNCHANGED <<current_player, move_count, last_move, pc, from_pos, to_pos,
                 candidates, valid_moves, choice, outcome, plan, log>>

\* A pawn of the other color has just advanced two squares on some file,
\* over empty squares: it stands on its fourth row and last_move says so.
PlaceAdvancedPawn ==
  /\ pc = "placed"
  /\ last_move = NoMove
  /\ Others < MaxOthers
  /\ \E y \in 0..7 :
       LET color == Opponent(current_player)
           start == IF color = "white" THEN 6 ELSE 1
           dir == IF color = "white" THEN 0 - 1 ELSE 1
       IN /\ \A k \in 0..2 : get_piece(grid, <<start + k * dir, y>>) = None
          /\ grid' = [grid EXCEPT ![start + 2 * dir][y] =
                        Placed("Pawn", color, <<start + 2 * dir, y>>, FALSE)]
          /\ last_move' = <<<<start, y>>, <<start + 2 * dir, y>>>>
  /\ UNCHANGED <<current_player, move_count, pc, from_pos, to_pos,
                 candidates, valid_moves, choice, outcome, plan, log>>

\* piece.get_valid_moves(board, position, last_move) is called for the
\* piece on from_pos.
AskMoves ==
  /\ pc = "placed"
  /\ \E r \in {get_valid_moves(grid, from_pos, last_move, {})} :
       /\ candidates' = r.moves
       /\ outcome' = r.err
  /\ pc' = "asked"
  /\ UNCHANGED <<grid, current_player, move_count, last_move, from_pos,
                 to_pos, valid_moves, choice, plan, log>>

NextPieces ==
  \/ PlaceRook
  \/ PlaceAdvancedPawn
  \/ AskMoves

SpecPieces == InitPieces /\ [][NextPieces]_vars

\* ------------------------------------------------------------------------
\* Checkers (src/шашка.py): pieces and board
\* ------------------------------------------------------------------------
\* In the checkers specifications `grid` is CheckersBoard.grid,
\* `current_player` is CheckersGame.current_turn, `from_pos` and `to_pos`
\* are the locals start and end of CheckersGame.play.

\* An empty cell of CheckersBoard.grid (Python None).
NoChecker == [color |-> "none", is_king |-> FALSE]

\* RegularChecker(color)
RegularChecker(color) == [color |-> color, is_king |-> FALSE]

\* KingChecker(color)
KingChecker(color) == [color |-> color, is_king |-> TRUE]

\* CheckersBoard.init_board
init_board ==
  [row \in 0..7 |-> [col \in 0..7 |->
     IF (row + col) % 2 = 1 /\ row < 3 THEN RegularChecker("black")
     ELSE IF (row + col) % 2 = 1 /\ row > 4 THEN RegularChecker("white")
     ELSE NoChecker]]

\* CheckersBoard.is_within_board
is_within_board(x, y) == 0 <= x /\ x < 8 /\ 0 <= y /\ y < 8

\* The directions of line 56 with a step straight ahead among them: the
\* variant the claim on the dark squares is tested against.
ManDirections_with_straight(color) ==
  IF color = "white" THEN {<<0 - 1, 0 - 1>>, <<0 - 1, 0>>, <<0 - 1, 1>>}
  ELSE {<<1, 0 - 1>>, <<1, 0>>, <<1, 1>>}

\* The directions of RegularChecker.get_valid_moves, line 56.
ManDirections(color) ==
  IF color = "white" THEN {<<0 - 1, 0 - 1>>, <<0 - 1, 1>>}
  ELSE {<<1, 0 - 1>>, <<1, 1>>}

\* RegularChecker.get_valid_moves: the dictionary with the lists 'moves'
\* and 'captures', each as the set of its elements.
RegularChecker_get_valid_moves(b, self, position) ==
  LET x == position[1]
      y == position[2]
      directions == ManDirections(self.color)
      open == {d \in directions :
                 /\ is_within_board(x + d[1], y + d[2])
                 /\ b[x + d[1]][y + d[2]] = NoChecker}
      jumps == {d \in directions :
                  /\ is_within_board(x + d[1], y + d[2])
                  /\ b[x + d[1]][y + d[2]] # NoChecker
                  /\ b[x + d[1]][y + d[2]].color # self.color
                  /\ is_within_board(x + 2 * d[1], y + 2 * d[2])
                  /\ b[x + 2 * d[1]][y + 2 * d[2]] = NoChecker}
  IN [moves |-> {<<x + d[1], y + d[2]>> : d \in open},
      captures |-> {<<x + 2 * d[1], y + 2 * d[2]>> : d \in jumps}]

\* The directions of KingChecker.get_valid_moves, line 89.
KingCheckerDirections ==
  {<<0 - 1, 0 - 1>>, <<0 - 1, 1>>, <<1, 0 - 1>>, <<1, 1>>}

\* KingChecker.get_valid_moves: what RegularChecker.get_valid_moves
\* returns, with the empty neighbours in the four directions appended to
\* 'moves'.
KingChecker_get_valid_moves(b, self, position) ==
  LET base == RegularChecker_get_valid_moves(b, self, position)
      steps == {d \in KingCheckerDirections :
                  /\ is_within_board(position[1] + d[1], position[2] + d[2])
                  /\ b[position[1] + d[1]][position[2] + d[2]] = NoChecker}
  IN [moves |-> base.moves \cup
                  {<<position[1] + d[1], position[2] + d[2]>> : d \in steps},
      captures |-> base.captures]

\* piece.get_valid_moves(board, position): the dispatch on the class.
Checker_get_valid_moves(b, self, position) ==
  IF self.is_king THEN KingChecker_get_valid_moves(b, self, position)
  ELSE RegularChecker_get_valid_moves(b, self, position)

\* CheckersBoard.check_promotion replacing nothing: the variant the claim on
\* the promotion of a man is tested against.
check_promotion_never(b, position) == b

\* CheckersBoard.check_promotion
check_promotion(b, position) ==
  LET x == position[1]
      y == position[2]
      piece == b[x][y]
  IN IF /\ ~piece.is_king
        /\ ((piece.color = "white" /\ x = 0) \/ (piece.color = "black" /\ x = 7))
     THEN [b EXCEPT ![x][y] = KingChecker(piece.color)]
     ELSE b

\* grid[start_x][start_y] as Python reads and writes it: a negative index
\* counts from the end of the list.
CheckerAt(b, pos) == b[PyIdx(pos[1])][PyIdx(pos[2])]

\* The capture branch of CheckersBoard.move_piece without line 165
\* (`self.grid[captured_x][captured_y] = None`): the variant the claim on
\* the capture of a man is tested against.
CaptureBranch_keeps_captured(b, piece, start, end) ==
  check_promotion(
    [[b EXCEPT ![end[1]][end[2]] = piece]
       EXCEPT ![PyIdx(start[1])][PyIdx(start[2])] = NoChecker], end)

\* The capture branch of CheckersBoard.move_piece, lines 161-166.
CaptureBranch(b, piece, start, end) ==
  LET captured_x == (start[1] + end[1]) \div 2
      captured_y == (start[2] + end[2]) \div 2
      landed == [b EXCEPT ![end[1]][end[2]] = piece]
      left == [landed EXCEPT ![PyIdx(start[1])][PyIdx(start[2])] = NoChecker]
  IN check_promotion(
       [left EXCEPT ![PyIdx(captured_x)][PyIdx(captured_y)] = NoChecker], end)

\* CheckersBoard.move_piece returning True on line 169 as well: the variant
\* the claim on the passing of the turn is tested against.
CheckersBoard_move_piece_never_refuses(b, start, end) ==
  LET piece == CheckerAt(b, start)
  IN IF piece = NoChecker THEN [ok |-> FALSE, grid |-> b]
     ELSE LET valid == Checker_get_valid_moves(b, piece, start)
          IN IF end \in valid.moves
             THEN [ok |-> TRUE,
                   grid |-> check_promotion(
                     [[b EXCEPT ![end[1]][end[2]] = piece]
                        EXCEPT ![PyIdx(start[1])][PyIdx(start[2])] = NoChecker],
                     end)]
             ELSE IF end \in valid.captures
             THEN [ok |-> TRUE, grid |-> CaptureBranch(b, piece, start, end)]
             ELSE [ok |-> TRUE, grid |-> b]

\* CheckersBoard.move_piece: the value returned and the grid after the
\* call. `start` is a pair of indices Python accepts.
CheckersBoard_move_piece(b, start, end) ==
  LET piece == CheckerAt(b, start)
  IN IF piece = NoChecker THEN [ok |-> FALSE, grid |-> b]
     ELSE LET valid == Checker_get_valid_moves(b, piece, start)
          IN IF end \in valid.moves
             THEN [ok |-> TRUE,
                   grid |-> check_promotion(
                     [[b EXCEPT ![end[1]][end[2]] = piece]
                        EXCEPT ![PyIdx(start[1])][PyIdx(start[2])] = NoChecker],
                     end)]
             ELSE IF end \in valid.captures
             THEN [ok |-> TRUE, grid |-> CaptureBranch(b, piece, start, end)]
             ELSE [ok |-> FALSE, grid |-> b]

\* ------------------------------------------------------------------------
\* Checkers: the board operations on their own
\* ------------------------------------------------------------------------
\* One piece, on from_pos, and a few others stand on the dark squares of an
\* otherwise empty board; the piece is asked for its moves (`candidates` is
\* the list 'moves', `valid_moves` the list 'captures') or is moved with
\* CheckersBoard.move_piece.

\* The other pieces put on the board beside the piece asked or moved.
MaxCheckerOthers == 1

EmptyCheckers == [i \in 0..7 |-> [j \in 0..7 |-> NoChecker]]

\* The squares the program can have such a piece on: a dark square, and for
\* a man not its farthest row, where check_promotion has made it a king.
CanStandChecker(color, is_king, sq) ==
  /\ (sq[1] + sq[2]) % 2 = 1
  /\ ~is_king => sq[1] # (IF color = "white" THEN 0 ELSE 7)

InitCheckersBoard ==
  /\ \E color \in Colors, is_king \in BOOLEAN, sq \in Squares :
       /\ CanStandChecker(color, is_king, sq)
       /\ grid = [EmptyCheckers EXCEPT ![sq[1]][sq[2]] =
                    [color |-> color, is_king |-> is_king]]
       /\ from_pos = sq
       /\ current_player = color
  /\ move_count = 0
  /\ last_move = NoMove
  /\ pc = "ck_placed"
  /\ to_pos = NoSquare
  /\ candidates = {}
  /\ valid_moves = {}
  /\ choice = ""
  /\ outcome = "placed"
  /\ plan = << >>
  /\ log = << >>

CheckerCount(b) ==
  Cardinality({sq \in Squares : b[sq[1]][sq[2]] # NoChecker})

\* sq lies on a diagonal through from_pos: the squares the move generators
\* read for the piece on from_pos.
OnDiagonal(sq) ==
  sq[1] - from_pos[1] = sq[2] - from_pos[2]
    \/ sq[1] - from_pos[1] = from_pos[2] - sq[2]

\* A piece of either color is put on an empty square of a diagonal through
\* from_pos: a man, or a king on the row where a man of that color cannot
\* stand.
PlaceChecker ==
  /\ pc = "ck_placed"
  /\ CheckerCount(grid) - 1 < MaxCheckerOthers
  /\ \E color \in Colors, sq \in Squares :
       /\ OnDiagonal(sq)
       /\ grid[sq[1]][sq[2]] = NoChecker
       /\ CanStandChecker(color, TRUE, sq)
       /\ grid' = [grid EXCEPT ![sq[1]][sq[2]] =
                     [color |-> color,
                      is_king |-> ~CanStandChecker(color, FALSE, sq)]]
  /\ UNCHANGED <<current_player, move_count, last_move, pc, from_pos, to_pos,
                 candidates, valid_moves, choice, outcome, plan, log>>

\* piece.get_valid_moves(board, start) of line 150 for the piece on
\* from_pos.
AskChecker ==
  /\ pc = "ck_placed"
  /\ \E r \in {Checker_get_valid_moves(grid, grid[from_pos[1]][from_pos[2]],
                                       from_pos)} :
       /\ candidates' = r.moves
       /\ valid_moves' = r.captures
  /\ pc' = "ck_asked"
  /\ outcome' = "asked"
  /\ UNCHANGED <<grid, current_player, move_count, last_move, from_pos,
                 to_pos, choice, plan, log>>

\* CheckersBoard.move_piece(from_pos, end) returns True; the outcome says
\* whether check_promotion replaced the piece.
MoveChecker(end) ==
  /\ pc = "ck_placed"
  /\ \E r \in {CheckersBoard_move_piece(grid, from_pos, end)} :
       /\ r.ok
       /\ grid' = r.grid
       /\ outcome' = IF r.grid[end[1]][end[2]] # CheckerAt(grid, from_pos)
                     THEN "crowned" ELSE "moved"
  /\ to_pos' = end
  /\ pc' = "ck_moved"
  /\ UNCHANGED <<current_player, move_count, last_move, from_pos,
                 candidates, valid_moves, choice, plan, log>>

\* CheckersBoard.move_piece(from_pos, end) returns False: the call for one
\* such square.
RefuseChecker ==
  /\ pc = "ck_placed"
  /\ LET refused == {end \in Squares :
                         ~CheckersBoard_move_piece(grid, from_pos, end).ok}
     IN /\ refused # {}
        /\ grid' = CheckersBoard_move_piece(
                     grid, from_pos, CHOOSE end \in refused : TRUE).grid
  /\ pc' = "ck_moved"
  /\ outcome' = "rejected_move"
  /\ UNCHANGED <<current_player, move_count, last_move, from_pos,
                 to_pos, candidates, valid_moves, choice, plan, log>>

NextCheckersBoard ==
  \/ PlaceChecker
  \/ AskChecker
  \/ \E end \in Squares : MoveChecker(end)
  \/ RefuseChecker

SpecCheckersBoard == InitCheckersBoard /\ [][NextCheckersBoard]_vars

\* ------------------------------------------------------------------------
\* Checkers: the session (CheckersGame.play)
\* ------------------------------------------------------------------------
\* `pc` is the prompt CheckersGame.play waits at: "ck_start" (line 226),
\* "ck_end" (line 237), or "crashed" after an exception. move_count counts
\* the moves accepted so far; the program keeps no such counter, it bounds
\* the exploration.
\* last_move holds the start and end squares of the move accepted last, a
\* record of the history that the program does not keep.

\* The moves accepted in a session.
MaxTurns == 3

\* The largest integer typed for a row or column; the smallest is -1.
MaxTyped == 8

\* The integers a player may type for a row or a column.
Typed == (0 - 1)..MaxTyped

\* CheckersGame.__init__
InitCheckers ==
  /\ grid = init_board
  /\ current_player = "white"
  /\ move_count = 0
  /\ last_move = NoMove
  /\ pc = "ck_start"
  /\ from_pos = NoSquare
  /\ to_pos = NoSquare
  /\ candidates = {}
  /\ valid_moves = {}
  /\ choice = ""
  /\ outcome = "start"
  /\ plan = << >>
  /\ log = << >>

\* Lines 226-232 for a line parse_input returns None for (not two
\* integers): "Некорректный выбор", asked again.
StartMalformed ==
  /\ pc = "ck_start"
  /\ move_count < MaxTurns
  /\ outcome' = "rejected_malformed"
  /\ UNCHANGED <<grid, current_player, move_count, last_move, pc, from_pos,
                 to_pos, candidates, valid_moves, choice, plan, log>>

\* Lines 226-229 for two integers of which one is no index of an 8-element
\* list: self.board.grid[start[0]][start[1]] raises IndexError, which
\* nothing catches.
StartCrash(x, y) ==
  /\ pc = "ck_start"
  /\ move_count < MaxTurns
  /\ ~IndexOk(x) \/ ~IndexOk(y)
  /\ pc' = "crashed"
  /\ outcome' = "IndexError"
  /\ from_pos' = <<x, y>>
  /\ UNCHANGED <<grid, current_player, move_count, last_move, to_pos,
                 candidates, valid_moves, choice, plan, log>>

\* Lines 226-232 for two integers Python accepts as indices (a negative one
\* counts from the end) of a cell that is empty or holds a piece of the
\* other color: "Некорректный выбор", asked again.
StartRejected(x, y) ==
  /\ pc = "ck_start"
  /\ move_count < MaxTurns
  /\ IndexOk(x) /\ IndexOk(y)
  /\ \/ CheckerAt(grid, <<x, y>>) = NoChecker
     \/ CheckerAt(grid, <<x, y>>).color # current_player
  /\ outcome' = "rejected_selection"
  /\ UNCHANGED <<grid, current_player, move_count, last_move, pc, from_pos,
                 to_pos, candidates, valid_moves, choice, plan, log>>

\* Lines 226-230 for two integers indexing a cell that holds a piece of the
\* player to move: start is the pair typed.
StartAccepted(x, y) ==
  /\ pc = "ck_start"
  /\ move_count < MaxTurns
  /\ IndexOk(x) /\ IndexOk(y)
  /\ CheckerAt(grid, <<x, y>>) # NoChecker
  /\ CheckerAt(grid, <<x, y>>).color = current_player
  /\ pc' = "ck_end"
  /\ from_pos' = <<x, y>>
  /\ outcome' = "selected"
  /\ UNCHANGED <<grid, current_player, move_count, last_move, to_pos,
                 candidates, valid_moves, choice, plan, log>>

\* Lines 237-241 for a line parse_input returns None for: "Некорректный
\* ввод", asked again.
EndMalformed ==
  /\ pc = "ck_end"
  /\ outcome' = "rejected_malformed"
  /\ UNCHANGED <<grid, current_player, move_count, last_move, pc, from_pos,
                 to_pos, candidates, valid_moves, choice, plan, log>>

\* Lines 237-245: any two integers are taken as end; move_piece returns
\* True and the turn passes to the other player.
EndAccepted(x, y) ==
  /\ pc = "ck_end"
  /\ \E r \in {CheckersBoard_move_piece(grid, from_pos, <<x, y>>)} :
       /\ r.ok
       /\ grid' = r.grid
  /\ current_player' = IF current_player = "white" THEN "black" ELSE "white"
  /\ move_count' = move_count + 1
  /\ last_move' = <<from_pos, <<x, y>>>>
  /\ pc' = "ck_start"
  /\ from_pos' = NoSquare
  /\ outcome' = "moved"
  /\ UNCHANGED <<to_pos, candidates, valid_moves, choice, plan, log>>

\* Lines 237-247: move_piece returns False, "Недопустимый ход!", and the
\* loop starts again with the same player.
EndRefused(x, y) ==
  /\ pc = "ck_end"
  /\ \E r \in {CheckersBoard_move_piece(grid, from_pos, <<x, y>>)} :
       /\ ~r.ok
       /\ grid' = r.grid
  /\ pc' = "ck_start"
  /\ from_pos' = NoSquare
  /\ outcome' = "rejected_move"
  /\ UNCHANGED <<current_player, move_count, last_move, to_pos, candidates,
                 valid_moves, choice, plan, log>>

NextCheckers ==
  \/ StartMalformed
  \/ \E x \in Typed, y \in Typed : StartCrash(x, y)
  \/ \E x \in Typed, y \in Typed : StartRejected(x, y)
  \/ \E x \in Typed, y \in Typed : StartAccepted(x, y)
  \/ EndMalformed
  \/ \E x \in Typed, y \in Typed : EndAccepted(x, y)
  \/ \E x \in Typed, y \in Typed : EndRefused(x, y)

SpecCheckers == InitCheckers /\ [][NextCheckers]_vars

\* ------------------------------------------------------------------------
\* Both games
\* ------------------------------------------------------------------------
\* A run of either program: a session of chess or a session of checkers.
\* The two share no value of `pc` but "crashed", which no step leaves.

InitGames == Init \/ InitCheckers

NextGames == Next \/ NextCheckers

SpecGames == InitGames /\ [][NextGames]_vars

\* ------------------------------------------------------------------------
\* Properties
\* ------------------------------------------------------------------------

\* A move has just been committed: the loop of Game.play is back at its
\* start after execute_move, switch_player and move_count += 1.
JustMoved == pc = "select" /\ outcome = "moved"

\* The player whose move was committed last.
Mover == Opponent(current_player)

\* m is a castling destination for the king standing on k: the same row,
\* two columns away.
IsCastling(k, m) == m[1] = k[1] /\ (m[2] - k[2] = 2 \/ k[2] - m[2] = 2)

\* The square a castling king passes over on its way from k to m.
Transit(k, m) == <<k[1], IF m[2] > k[2] THEN k[2] + 1 ELSE k[2] - 1>>

\* C1: immediately after a move is committed, the king of the side that
\* moved is not in check on the live board.
C1_MoverNotInCheck == JustMoved => is_in_check(grid, Mover) # "yes"

\* C2: computing the candidate and the legal moves of a selected piece
\* always ends in a normal result: the session never ends in an exception
\* (RecursionError from the castling tests asking each other, IndexError
\* from a read outside rows 0..7).
C2_NoErrorState == pc # "crashed"

\* C3: a castling destination is never among the legal moves of a king
\* while the opponent attacks the king's square, the square it passes
\* over, or the destination.
C3_NoCastlingUnderAttack ==
  (pc = "dest" /\ get_piece(grid, from_pos).kind = "King") =>
    \A m \in valid_moves :
      IsCastling(from_pos, m) =>
        \A sq \in {from_pos, Transit(from_pos, m), m} :
          is_square_under_attack(grid, sq, current_player, {}) # "yes"

\* The squares a committed move has left or arrived on, by the history.
Touched == {log[i][1] : i \in 1..Len(log)} \cup {log[i][2] : i \in 1..Len(log)}

\* The castling destinations King.get_valid_moves returns for the king of
\* the color on the live board (none when there is no such king or the call
\* raises).
CastlingOffers(color, king_pos) ==
  IF king_pos = NoSquare THEN {}
  ELSE {m \in King_get_valid_moves(grid, get_piece(grid, king_pos),
                                   king_pos, {}).moves :
          IsCastling(king_pos, m)}

\* The corner a king castling from k to m castles with.
Corner(k, m) == <<k[1], IF m[2] > k[2] THEN 7 ELSE 0>>

\* The castling destination m of the king on k is offered rightly: no
\* committed move has left or reached the king's square or the corner, the
\* corner holds a rook of the king's color, and the squares between are empty.
CastlingSound(k, m) ==
  /\ k \notin Touched
  /\ Corner(k, m) \notin Touched
  /\ get_piece(grid, Corner(k, m)).kind = "Rook"
  /\ get_piece(grid, Corner(k, m)).color = get_piece(grid, k).color
  /\ \A j \in 1..6 :
       ((j > k[2] /\ m[2] > k[2]) \/ (j < k[2] /\ m[2] < k[2]))
         => grid[k[1]][j] = None

\* C4: in every position of the game, King.get_valid_moves offers a castling
\* destination only to a king that has never moved, toward a corner rook that
\* has never moved since the game started, with every square strictly
\* between them empty; a king or rook that moved and came back is not
\* offered it again.
C4_CastlingOnlyUnmoved ==
  \A color \in Colors :
    \A m \in CastlingOffers(color, find_king_position(grid, color)) :
      CastlingSound(find_king_position(grid, color), m)

\* Castling is offered to a king in a position reached by committed moves,
\* some of which vacated the squares between king and rook.
C4_CastlingOffered ==
  /\ move_count >= 6
  /\ pc = "select"
  /\ <<7, 6>> \in CastlingOffers("white", find_king_position(grid, "white"))

\* The en-passant destinations among the moves generated for the selected
\* pawn: a diagonal step onto an empty square.
EnPassantOffers ==
  IF pc = "dest" /\ get_piece(grid, from_pos).kind = "Pawn"
  THEN {m \in candidates : IsEnPassant(grid, from_pos, m)}
  ELSE {}

\* The move committed last, by the history, was the two-square advance of an
\* enemy pawn from its start row to the square beside the selected pawn, on
\* the file of m.
AdvancedBeside(m) ==
  /\ Len(log) > 0
  /\ LET prev == log[Len(log)]
     IN /\ prev[2] = <<from_pos[1], m[2]>>
        /\ prev[1] = <<IF current_player = "white" THEN 1 ELSE 6, m[2]>>
        /\ (prev[1][1] - prev[2][1] = 2 \/ prev[2][1] - prev[1][1] = 2)
        /\ (m[2] = from_pos[2] + 1 \/ m[2] = from_pos[2] - 1)
        /\ get_piece(grid, prev[2]) = [kind |-> "Pawn",
                                       color |-> Opponent(current_player),
                                       has_moved |-> TRUE]

\* C5: an en-passant destination is among the moves of the selected pawn
\* (generated, and so legal) only when the move committed immediately before
\* was the two-square advance of an enemy pawn to the square beside it; after
\* any other committed move it is not offered, so a request for it is
\* rejected.
C5_EnPassantOnlyNextPly == \A m \in EnPassantOffers : AdvancedBeside(m)

\* An en-passant capture is offered as a legal move of the selected pawn.
C5_EnPassantOffered ==
  \E m \in EnPassantOffers : m \in valid_moves /\ AdvancedBeside(m)

\* The number of pieces on a board.
Count(b) == Cardinality({sq \in Squares : get_piece(b, sq) # None})

\* The move from f to t on board b takes a piece: one stands on t, or a pawn
\* steps diagonally onto an empty square (en passant).
IsCapture(b, f, t) == get_piece(b, t) # None \/ IsEnPassant(b, f, t)

\* What Game.execute_move has done to the board when it commits the move
\* from f to t: the source is empty, the destination holds the piece that
\* stood on the source, the number of pieces is one less for a capture and
\* the same otherwise, and the pawn taken en passant is the one that stood
\* on (f.row, t.col).
Executed(f, t) ==
  /\ get_piece(grid', f) = None
  /\ get_piece(grid', t) = [get_piece(grid, f) EXCEPT !.has_moved = TRUE]
  /\ Count(grid') = Count(grid) - (IF IsCapture(grid, f, t) THEN 1 ELSE 0)
  /\ IsEnPassant(grid, f, t) =>
       /\ get_piece(grid, <<f[1], t[2]>>).kind = "Pawn"
       /\ get_piece(grid, <<f[1], t[2]>>).color = Opponent(current_player)
       /\ get_piece(grid', <<f[1], t[2]>>) = None

\* What Game.promote_pawn has done when it returns: the destination holds a
\* queen, rook, bishop or knight of the mover, the source is still empty and
\* the number of pieces is the same.
Promoted ==
  /\ get_piece(grid', to_pos).kind \in PromotionKinds
  /\ get_piece(grid', to_pos).color = current_player
  /\ get_piece(grid', last_move[1]) = None
  /\ Count(grid') = Count(grid)

\* C6: when execute_move commits a legal move the source square is left
\* empty and the destination holds the moved piece, or after the promotion
\* prompt the piece it was promoted to; the number of pieces decreases by
\* exactly one for a capture (en passant included, where the pawn removed is
\* the one on (from.row, to.col)) and is unchanged otherwise, castling
\* included.
C6_ExecuteMoveEffect ==
  [][/\ log' # log => Executed(log'[Len(log')][1], log'[Len(log')][2])
     /\ (pc = "promote" /\ pc' # "promote") => Promoted]_vars

\* An en-passant capture has been committed: the captured pawn's square and
\* the source are empty and 31 pieces are left.
C6_EnPassantCommitted ==
  /\ JustMoved
  /\ last_move = M(3, 4, 2, 3)
  /\ get_piece(grid, <<2, 3>>).kind = "Pawn"
  /\ get_piece(grid, <<3, 3>>) = None
  /\ Count(grid) = 31

\* The pawns standing on row 0 or row 7.
LastRankPawns ==
  {sq \in Squares : sq[1] \in {0, 7} /\ get_piece(grid, sq).kind = "Pawn"}

\* No pawn stands on row 0 or 7 once execute_move has returned; while it
\* waits in promote_pawn the only one is the mover's pawn that has just
\* arrived, and an answer that was refused has left the program waiting.
PawnsLeaveLastRank ==
  /\ pc # "promote" => LastRankPawns = {}
  /\ pc = "promote" =>
       /\ LastRankPawns = {to_pos}
       /\ get_piece(grid, to_pos).color = current_player
       /\ last_move[2] = to_pos
  /\ outcome = "rejected_choice" => pc = "promote"

\* What promote_pawn does with the answer typed: a valid one puts a new
\* piece of that kind and the mover's color on the square and ends the move,
\* any other one changes nothing and is asked again.
ChoiceHonoured ==
  pc = "promote" =>
    IF choice' \in {"Q", "R", "B", "N"}
    THEN /\ grid' = [grid EXCEPT ![to_pos[1]][to_pos[2]] =
                       [kind |-> CASE choice' = "Q" -> "Queen"
                                   [] choice' = "R" -> "Rook"
                                   [] choice' = "B" -> "Bishop"
                                   [] choice' = "N" -> "Knight",
                        color |-> current_player,
                        has_moved |-> FALSE]]
         /\ pc' = "select"
         /\ move_count' = move_count + 1
    ELSE /\ grid' = grid
         /\ pc' = "promote"
         /\ move_count' = move_count
         /\ current_player' = current_player

\* C7: in every committed position no pawn stands on row 0 or row 7; a pawn
\* that arrives there is replaced by a queen, rook, bishop or knight of the
\* mover's color as the answer says, and any other answer is asked again
\* with nothing replaced, so no move completes with a pawn on the last rank.
C7_PromotionCompletes == []PawnsLeaveLastRank /\ [][ChoiceHonoured]_vars

\* Black has promoted a pawn on row 7 to a knight.
C7_BlackPromoted ==
  /\ JustMoved
  /\ current_player = "white"
  /\ choice = "N"
  /\ get_piece(grid, last_move[2]) = ChessPiece("Knight", "black")
  /\ last_move[2][1] = 7

\* C8: every square get_valid_moves returns for a piece, on any board and
\* the simulated boards with a pawn on its last rank included, has its row
\* and column in 0..7 and, when occupied, holds a piece of the other color.
C8_MovesOnBoardNotOwn ==
  pc = "asked" =>
    \A m \in candidates :
      /\ OnBoard(m[1], m[2])
      /\ get_piece(grid, m).color # get_piece(grid, from_pos).color

\* The game state a request may change: the board with every piece's
\* has_moved flag, the player to move, the move counter and the last move.
game == <<grid, current_player, move_count, last_move>>

\* What one request does to the game state. A selection never changes it,
\* and leads to the prompt for the destination only for a square holding a
\* piece of the player to move that has a legal move; every refused request
\* (an empty square, an opponent's piece, a piece with no legal move, a
\* destination outside the legal moves) leaves it as it was and starts the
\* loop again; the state changes at the destination prompt only for a
\* destination among the legal moves computed for the selected piece.
RequestEffect ==
  /\ pc = "select" => UNCHANGED game
  /\ (pc = "select" /\ pc' = "dest") =>
       /\ get_piece(grid, from_pos') # None
       /\ get_piece(grid, from_pos').color = current_player
       /\ valid_moves' # {}
       /\ valid_moves' \subseteq candidates'
  /\ outcome' \in {"rejected_selection", "no_valid_moves", "rejected_move"} =>
       /\ UNCHANGED game
       /\ pc' = "select"
  /\ (pc = "dest" /\ (grid' # grid \/ last_move' # last_move)) =>
       /\ last_move'[1] = from_pos
       /\ last_move'[2] \in valid_moves

\* C9: a selection of an empty square, of an opponent's piece or of an own
\* piece with no legal move, and a destination that is not among the legal
\* moves of the selected piece, are refused with the whole game state
\* unchanged: the board, every has_moved flag, current_player, move_count
\* and last_move.
C9_RejectedUnchanged == [][RequestEffect]_vars

\* A destination has been refused in the middle of a game.
C9_DestinationRefused ==
  /\ outcome = "rejected_move"
  /\ pc = "select"
  /\ move_count >= 5
  /\ grid # setup_board

\* White is to move exactly when move_count is even, last_move is absent
\* exactly before the first move, and the history holds one entry for every
\* move counted (one more while the promotion prompt of the move under way
\* is open).
TurnOrder ==
  /\ current_player = "white" <=> move_count % 2 = 0
  /\ last_move = NoMove <=> move_count = 0
  /\ Len(log) = move_count + (IF pc = "promote" THEN 1 ELSE 0)
  /\ Len(log) > 0 => last_move = log[Len(log)]

\* What committing a move does: the move executed is the one asked for, of a
\* piece of the player to move, it is recorded once in the history and in
\* last_move, and when the move is complete the player changes and
\* move_count grows by one, both together.
CommitStep ==
  /\ log' # log =>
       /\ log' = Append(log, <<from_pos, last_move'[2]>>)
       /\ last_move' = <<from_pos, last_move'[2]>>
       /\ get_piece(grid, from_pos).color = current_player
       /\ pc = "dest"
  /\ move_count' # move_count =>
       /\ move_count' = move_count + 1
       /\ current_player' # current_player
       /\ current_player' \in Colors
       /\ log' # log \/ pc = "promote"
  /\ current_player' # current_player => move_count' = move_count + 1
  /\ last_move' # last_move => log' # log

\* C10: every accepted move is committed exactly once, sets last_move to
\* its (from, to), changes the player to move and adds one to move_count; so
\* the players alternate from White on, current_player is "white" exactly
\* when move_count is even, and last_move is absent exactly when move_count
\* is 0.
C10_CommitOnceAndAlternate == []TurnOrder /\ [][CommitStep]_vars

\* Sixteen moves have been committed, Black's last, and White is to move.
C10_SixteenCommitted ==
  /\ move_count = 16
  /\ current_player = "white"
  /\ last_move = M(4, 2, 5, 3)
  /\ Len(log) = 16

\* ------------------------------------------------------------------------
\* Properties of the checkers board
\* ------------------------------------------------------------------------

\* The piece on from_pos when it was placed is a man.
ManPlaced == ~grid[from_pos[1]][from_pos[2]].is_king

\* The landing squares of the jumps open to a man of the color on from_pos:
\* an opponent's piece stands on a forward diagonal neighbour and the next
\* square of that diagonal is on the board and empty.
JumpLandings(color) ==
  {<<from_pos[1] + 2 * d[1], from_pos[2] + 2 * d[2]>> : d \in
     {e \in {<<IF color = "white" THEN 0 - 1 ELSE 1, 0 - 1>>,
             <<IF color = "white" THEN 0 - 1 ELSE 1, 1>>} :
        /\ from_pos[1] + 2 * e[1] \in 0..7
        /\ from_pos[2] + 2 * e[2] \in 0..7
        /\ grid[from_pos[1] + e[1]][from_pos[2] + e[2]].color
             = Opponent(color)
        /\ grid[from_pos[1] + 2 * e[1]][from_pos[2] + 2 * e[2]] = NoChecker}}

\* Every jump open to the man asked is in the list 'captures'.
JumpsReported ==
  (pc = "ck_asked" /\ ManPlaced) =>
    JumpLandings(grid[from_pos[1]][from_pos[2]].color) \subseteq valid_moves

\* The man on from_pos is moved to a landing square of a jump: move_piece
\* succeeds, the man (a king of its color when the landing square is on its
\* farthest row) stands on the landing square, the start square and the
\* jumped square are empty, and every other square is as it was.
JumpApplied ==
  (pc = "ck_placed" /\ ManPlaced) =>
    \A land \in JumpLandings(grid[from_pos[1]][from_pos[2]].color) :
      /\ CheckersBoard_move_piece(grid, from_pos, land).ok
      /\ (pc' = "ck_moved" /\ to_pos' = land) =>
           \A sq \in Squares :
             grid'[sq[1]][sq[2]] =
               IF sq = land
               THEN [color |-> grid[from_pos[1]][from_pos[2]].color,
                     is_king |-> land[1] \in {0, 7}]
               ELSE IF sq = from_pos
                      \/ sq = <<(from_pos[1] + land[1]) \div 2,
                                (from_pos[2] + land[2]) \div 2>>
               THEN NoChecker
               ELSE grid[sq[1]][sq[2]]

\* C11: a man with an opponent's piece on a forward diagonal neighbour and
\* the next square of that diagonal on the board and empty is reported that
\* square in 'captures'; CheckersBoard.move_piece to it puts the man on the
\* landing square (promoted when that is its farthest row), empties the
\* start square and the jumped square, and changes no other square.
C11_ManCapture == []JumpsReported /\ [][JumpApplied]_vars

\* A man has jumped over an opponent's piece: it stands, still a man, two
\* rows from its start, and the jumped square is empty.
C11_ManHasJumped ==
  /\ pc = "ck_moved"
  /\ outcome = "moved"
  /\ (to_pos[1] - from_pos[1] = 2 \/ from_pos[1] - to_pos[1] = 2)
  /\ grid[to_pos[1]][to_pos[2]] # NoChecker
  /\ ~grid[to_pos[1]][to_pos[2]].is_king
  /\ grid[from_pos[1]][from_pos[2]] = NoChecker
  /\ CheckerCount(grid) = 1

\* The square k steps from from_pos in direction d.
Along(d, k) == <<from_pos[1] + k * d[1], from_pos[2] + k * d[2]>>

\* The squares 1..k steps from from_pos in direction d are on the board and
\* empty.
ClearTo(d, k) ==
  \A j \in 1..k :
    /\ is_within_board(Along(d, j)[1], Along(d, j)[2])
    /\ grid[Along(d, j)[1]][Along(d, j)[2]] = NoChecker

\* C12: for a king, 'moves' holds in each of the four diagonal directions
\* every empty square reachable by unobstructed travel of any length, and
\* 'captures' holds the jump over the first occupied square of each ray
\* when it holds an opponent's piece, backward as well as forward.
C12_KingTravelsRays ==
  (pc = "ck_asked" /\ grid[from_pos[1]][from_pos[2]].is_king) =>
    \A d \in {<<0 - 1, 0 - 1>>, <<0 - 1, 1>>, <<1, 0 - 1>>, <<1, 1>>} :
      \A k \in 1..7 :
        /\ ClearTo(d, k) => Along(d, k) \in candidates
        /\ (/\ ClearTo(d, k - 1)
            /\ is_within_board(Along(d, k + 1)[1], Along(d, k + 1)[2])
            /\ grid[Along(d, k)[1]][Along(d, k)[2]].color
                 = Opponent(current_player)
            /\ grid[Along(d, k + 1)[1]][Along(d, k + 1)[2]] = NoChecker)
             => Along(d, k + 1) \in valid_moves

\* No white man stands on row 0 and no black man on row 7.
NoManOnFarthestRow ==
  \A y \in 0..7 :
    /\ grid[0][y] # RegularChecker("white")
    /\ grid[7][y] # RegularChecker("black")

\* What a successful move_piece leaves on the destination: a king that was
\* moved is that king, a man that arrived on its farthest row is a king of
\* its color, any other man is that man.
ArrivedPiece ==
  (pc = "ck_placed" /\ pc' = "ck_moved" /\ outcome' # "rejected_move") =>
    grid'[to_pos'[1]][to_pos'[2]] =
      [color |-> grid[from_pos[1]][from_pos[2]].color,
       is_king |-> \/ grid[from_pos[1]][from_pos[2]].is_king
                   \/ to_pos'[1] = (IF current_player = "white" THEN 0 ELSE 7)]

\* C13: after any successful CheckersBoard.move_piece, simple move or
\* capture, no white man stands on row 0 and no black man on row 7: a man
\* arriving on its farthest row is replaced by a king of its color, and a
\* king is left as it is.
C13_MenPromoted == []NoManOnFarthestRow /\ [][ArrivedPiece]_vars

\* A black man has arrived on row 7 by a capture and is a king now.
C13_BlackManCrowned ==
  /\ pc = "ck_moved"
  /\ outcome = "crowned"
  /\ to_pos[1] = 7
  /\ from_pos[1] = 5
  /\ grid[to_pos[1]][to_pos[2]] = KingChecker("black")
  /\ CheckerCount(grid) = 1

\* ------------------------------------------------------------------------
\* Properties of the checkers session
\* ------------------------------------------------------------------------

\* C14: a typed pair with a component outside 0..7 never reaches the board:
\* the session does not fail on it, and the piece selected (the start that
\* move_piece is given) is always a square of the board, never another
\* square read through the out-of-range pair.
C14_OutOfRangeNeverUsed ==
  /\ pc # "crashed"
  /\ from_pos # NoSquare => is_within_board(from_pos[1], from_pos[2])
  /\ last_move # NoMove =>
       /\ is_within_board(last_move[1][1], last_move[1][2])
       /\ is_within_board(last_move[2][1], last_move[2][2])

\* ------------------------------------------------------------------------
\* Properties of the chess board services
\* ------------------------------------------------------------------------

\* The objects after lines 446-447 of filter_self_checks for the candidate
\* m: the copy of the live board, with the selected piece moved on it.
Simulated(m) == move_piece_refs(copy_refs(Live(grid)), from_pos, m)

\* The copy shows the live board square by square and refers to none of its
\* objects; after the move on the copy the live board shows what it showed,
\* has_moved flags included, and the copy shows the board after the move.
CopyIndependent(m) ==
  /\ View(copy_refs(Live(grid)).objs, copy_refs(Live(grid)).refs) = grid
  /\ \A sq \in Squares :
       copy_refs(Live(grid)).refs[sq[1]][sq[2]] \in {0} \cup 65..128
  /\ View(Simulated(m).objs, Live(grid).refs) = grid
  /\ View(Simulated(m).objs, Simulated(m).refs)
       = move_piece(grid, from_pos, m)

\* C15: Board.copy returns a board equal square by square (kind, color,
\* has_moved) to the original and sharing no piece with it, so the moves
\* filter_self_checks makes on copies leave every square and every
\* has_moved flag of the live board as it was.
C15_CopyIndependent ==
  pc = "dest" => \A m \in candidates : CopyIndependent(m)

\* The legal moves of a piece that has not moved have been computed: on the
\* copy the piece has moved, on the live board it has not.
C15_SimulatedOnCopy ==
  /\ pc = "dest"
  /\ move_count >= 2
  /\ ~get_piece(grid, from_pos).has_moved
  /\ \E m \in candidates :
       /\ View(Simulated(m).objs, Simulated(m).refs)[m[1]][m[2]].has_moved
       /\ CopyIndependent(m)

\* The candidates of the selected piece after which the king of the player
\* to move is not attacked on the board where only that move was made.
SafeCandidates ==
  {m \in candidates :
     is_in_check(move_piece(grid, from_pos, m), current_player) = "no"}

\* C16: the list filter_self_checks returns for the selected piece is a
\* subset of the candidates its get_valid_moves returned, and holds exactly
\* the candidates after which is_in_check of the moving color is false on
\* the simulated board.
C16_LegalAreSafeCandidates ==
  pc = "dest" =>
    /\ valid_moves \subseteq candidates
    /\ valid_moves = SafeCandidates

\* The legality step has removed candidates: the selected piece has
\* candidates that leave the mover's king attacked, and legal moves.
C16_SomeCandidatesRemoved ==
  /\ pc = "dest"
  /\ valid_moves # {}
  /\ valid_moves # candidates
  /\ \E m \in candidates \ valid_moves :
       is_in_check(move_piece(grid, from_pos, m), current_player) = "yes"

\* The squares holding a king of the color.
Kings(color) ==
  {sq \in Squares : get_piece(grid, sq).kind = "King"
                      /\ get_piece(grid, sq).color = color}

\* C17: in every position reached from the initial layout by committed
\* moves the board holds exactly one white king and exactly one black king:
\* no committed move captures a king and no promotion creates one.
C17_OneKingEach ==
  \A color \in Colors : Cardinality(Kings(color)) = 1

\* What Board.move_piece(from_pos, m) makes of the live board for the piece
\* selected: the piece stands on m with has_moved set and the source is
\* empty; for a king displaced by two files the corner of that side is
\* empty and its rook stands on the square the king passed over, beside the
\* king; every other square is as it was.
Relocated(m) ==
  \A sq \in Squares :
    get_piece(move_piece(grid, from_pos, m), sq) =
      IF sq = m
      THEN [get_piece(grid, from_pos) EXCEPT !.has_moved = TRUE]
      ELSE IF sq = from_pos THEN None
      ELSE IF get_piece(grid, from_pos).kind = "King" /\ IsCastling(from_pos, m)
      THEN IF sq = Corner(from_pos, m) THEN None
           ELSE IF sq = Transit(from_pos, m)
           THEN get_piece(grid, Corner(from_pos, m))
           ELSE get_piece(grid, sq)
      ELSE get_piece(grid, sq)

\* The rook a castling king castles with: a rook of its color in the corner,
\* and the square it is put on lies between the king's old and new squares,
\* beside the new one.
RookInside(m) ==
  (get_piece(grid, from_pos).kind = "King" /\ IsCastling(from_pos, m)) =>
    /\ get_piece(grid, Corner(from_pos, m)).kind = "Rook"
    /\ get_piece(grid, Corner(from_pos, m)).color = current_player
    /\ Transit(from_pos, m)[1] = m[1]
    /\ (Transit(from_pos, m)[2] - m[2] = 1 \/ m[2] - Transit(from_pos, m)[2] = 1)
    /\ (Transit(from_pos, m)[2] - from_pos[2] = 1
          \/ from_pos[2] - Transit(from_pos, m)[2] = 1)

\* C18: Board.move_piece relocates the piece from the source to the
\* destination and sets its has_moved flag; for a king displaced by two
\* files it also moves the rook from that side's corner to the square the
\* king passed over and empties the corner, leaving king and rook on
\* adjacent squares with the rook on the inner side; called with an empty
\* source square it changes nothing.
C18_MovePieceRelocates ==
  pc = "dest" =>
    /\ \A m \in candidates : Relocated(m) /\ RookInside(m)
    /\ \A sq \in Squares :
         get_piece(grid, sq) = None =>
           \A t \in Squares : move_piece(grid, sq, t) = grid

\* A king has been selected that may castle: move_piece is applied to a
\* displacement of two files.
C18_CastlingSimulated ==
  /\ pc = "dest"
  /\ get_piece(grid, from_pos).kind = "King"
  /\ \E m \in valid_moves :
       /\ IsCastling(from_pos, m)
       /\ get_piece(move_piece(grid, from_pos, m), Transit(from_pos, m)).kind
            = "Rook"

\* The pawns on the board that are not on their last rank.
PawnsInPlay ==
  {sq \in Squares :
     /\ get_piece(grid, sq).kind = "Pawn"
     /\ sq[1] # (IF get_piece(grid, sq).color = "white" THEN 0 ELSE 7)}

\* The last_move the game passes for the pawn on sq: the move committed last
\* for a pawn of the player to move, none for any other.
LastMoveFor(sq) ==
  IF get_piece(grid, sq).color = current_player THEN last_move ELSE NoMove

\* The row in front of the pawn on sq.
Ahead(sq) == IF get_piece(grid, sq).color = "white" THEN sq[1] - 1 ELSE sq[1] + 1

\* The row two steps in front of the pawn on sq.
TwoAhead(sq) ==
  IF get_piece(grid, sq).color = "white" THEN sq[1] - 2 ELSE sq[1] + 2

\* The pawn on sq stands on the row its color starts from.
OnStartRow(sq) ==
  sq[1] = (IF get_piece(grid, sq).color = "white" THEN 6 ELSE 1)

\* The squares diagonally in front of the pawn on sq.
Diagonals(sq) ==
  {t \in {<<Ahead(sq), sq[2] - 1>>, <<Ahead(sq), sq[2] + 1>>} :
     OnBoard(t[1], t[2])}

\* The squares in front of the pawn on sq, one and two steps away.
Forwards(sq) ==
  {t \in {<<Ahead(sq), sq[2]>>, <<TwoAhead(sq), sq[2]>>} : OnBoard(t[1], t[2])}

\* last_move qualifies for the pawn on sq to take en passant onto t: it
\* brought an enemy pawn two rows forward to the square beside the pawn, in
\* t's file.
Qualifies(sq, t) ==
  /\ LastMoveFor(sq) # NoMove
  /\ LastMoveFor(sq)[2] = <<sq[1], t[2]>>
  /\ get_piece(grid, <<sq[1], t[2]>>).kind = "Pawn"
  /\ get_piece(grid, <<sq[1], t[2]>>).color # get_piece(grid, sq).color
  /\ LastMoveFor(sq)[1] = <<TwoAhead(sq), t[2]>>

\* The moves the rules of the pawn give the pawn on sq.
PawnMoves(sq) ==
  {t \in Forwards(sq) :
     /\ get_piece(grid, <<Ahead(sq), sq[2]>>) = None
     /\ get_piece(grid, t) = None
     /\ t[1] = TwoAhead(sq) => OnStartRow(sq)}
  \cup
  {t \in Diagonals(sq) :
     \/ /\ get_piece(grid, t) # None
        /\ get_piece(grid, t).color # get_piece(grid, sq).color
     \/ Qualifies(sq, t)}

\* C19: for a pawn not on its last rank, Pawn.get_valid_moves returns
\* exactly the empty square one step forward, the square two steps forward
\* from the starting row when both squares are empty, each forward-diagonal
\* square holding a piece of the other color, and the en-passant square when
\* last_move qualifies; it returns no occupied forward square and no empty
\* diagonal square other than the en-passant square.
C19_PawnMovesExact ==
  pc \in {"select", "dest"} =>
    \A sq \in PawnsInPlay :
      \E r \in {Pawn_get_valid_moves(grid, get_piece(grid, sq), sq,
                                     LastMoveFor(sq))} :
        /\ r.err = "none"
        /\ r.moves = PawnMoves(sq)
        /\ \A t \in r.moves :
             /\ t[2] = sq[2] => get_piece(grid, t) = None
             /\ (t[2] # sq[2] /\ get_piece(grid, t) = None) => Qualifies(sq, t)

\* The selected pawn is offered the square in front of it and a capture on
\* one diagonal, and is not offered the empty square of the other diagonal,
\* beside which an enemy pawn stands that has not just arrived.
C19_PawnCasesMet ==
  /\ pc = "dest"
  /\ from_pos \in PawnsInPlay
  /\ <<Ahead(from_pos), from_pos[2]>> \in candidates
  /\ \E t \in Diagonals(from_pos) :
       get_piece(grid, t) # None /\ t \in candidates
  /\ \E t \in Diagonals(from_pos) :
       /\ get_piece(grid, t) = None
       /\ get_piece(grid, <<from_pos[1], t[2]>>).kind = "Pawn"
       /\ get_piece(grid, <<from_pos[1], t[2]>>).color # current_player
       /\ t \notin candidates

\* The square k steps from sq in direction d.
Step(sq, d, k) == <<sq[1] + d[1] * k, sq[2] + d[2] * k>>

\* The squares the piece on sq reaches along the rays of the directions ds:
\* those on the board with every square between empty, that are empty or
\* hold a piece of the other color.
Reaches(sq, ds) ==
  {t \in {Step(sq, d, k) : d \in ds, k \in 1..7} :
     /\ OnBoard(t[1], t[2])
     /\ \/ get_piece(grid, t) = None
        \/ get_piece(grid, t).color # get_piece(grid, sq).color
     /\ \E d \in ds, k \in 1..7 :
          /\ t = Step(sq, d, k)
          /\ \A j \in 1..(k - 1) : get_piece(grid, Step(sq, d, j)) = None}

\* The squares holding a piece of the kind.
Standing(kind) == {sq \in Squares : get_piece(grid, sq).kind = kind}

\* C20: Rook.get_valid_moves and Bishop.get_valid_moves return along each of
\* their four rays every empty square up to the first occupied square, that
\* square too if its occupant has the other color, and no square beyond it;
\* Queen.get_valid_moves returns the union of the rook's and the bishop's
\* results from the same square.
C20_SlidersFollowRays ==
  /\ \A sq \in Standing("Rook") :
       Rook_get_valid_moves(grid, get_piece(grid, sq), sq)
         = Reaches(sq, RookDirections)
  /\ \A sq \in Standing("Bishop") :
       Bishop_get_valid_moves(grid, get_piece(grid, sq), sq)
         = Reaches(sq, BishopDirections)
  /\ \A sq \in Standing("Queen") :
       /\ Queen_get_valid_moves(grid, get_piece(grid, sq), sq)
            = Reaches(sq, RookDirections) \cup Reaches(sq, BishopDirections)
       /\ Queen_get_valid_moves(grid, get_piece(grid, sq), sq)
            = Rook_get_valid_moves(grid, get_piece(grid, sq), sq)
                \cup Bishop_get_valid_moves(grid, get_piece(grid, sq), sq)

\* A queen has been selected that is offered an empty square two or more
\* steps away along a rook's ray and along a bishop's ray, and a square held
\* by an enemy piece, while one of its rays is closed by a piece of its own
\* color.
C20_QueenOnOpenRays ==
  /\ pc = "dest"
  /\ get_piece(grid, from_pos).kind = "Queen"
  /\ \E d \in RookDirections, k \in 2..7 :
       OnBoard(Step(from_pos, d, k)[1], Step(from_pos, d, k)[2])
         /\ Step(from_pos, d, k) \in candidates
  /\ \E d \in BishopDirections, k \in 2..7 :
       OnBoard(Step(from_pos, d, k)[1], Step(from_pos, d, k)[2])
         /\ Step(from_pos, d, k) \in candidates
  /\ \E t \in candidates : get_piece(grid, t) # None
  /\ \E d \in RookDirections \cup BishopDirections :
       /\ OnBoard(Step(from_pos, d, 1)[1], Step(from_pos, d, 1)[2])
       /\ get_piece(grid, Step(from_pos, d, 1)).color = current_player
       /\ Step(from_pos, d, 1) \notin candidates

\* ------------------------------------------------------------------------
\* Properties of the checkers session: turns
\* ------------------------------------------------------------------------

\* The step is one in which play calls move_piece (line 244): it leaves the
\* destination prompt for the selection prompt.
MoveRequested == pc = "ck_end" /\ pc' = "ck_start"

\* The step is one in which move_piece returned True for the destination
\* that last_move records.
MoveSucceeded ==
  /\ MoveRequested
  /\ last_move' # NoMove
  /\ last_move'[1] = from_pos
  /\ CheckersBoard_move_piece(grid, from_pos, last_move'[2]).ok
  /\ grid' = CheckersBoard_move_piece(grid, from_pos, last_move'[2]).grid

\* The destinations in the 'moves' or the 'captures' list of the piece
\* selected.
Listed ==
  Checker_get_valid_moves(grid, CheckerAt(grid, from_pos), from_pos).moves
    \cup
  Checker_get_valid_moves(grid, CheckerAt(grid, from_pos), from_pos).captures

\* move_piece returns False and leaves the board alone for every pair typed
\* that is in neither list of the piece selected.
UnlistedRefused ==
  pc = "ck_end" =>
    \E listed \in {Listed} :
      \A x \in Typed, y \in Typed :
        <<x, y>> \notin listed =>
          CheckersBoard_move_piece(grid, from_pos, <<x, y>>)
            = [ok |-> FALSE, grid |-> grid]

\* One step of the session: the turn passes exactly in a step where
\* move_piece returned True, and then to the other color; in every other
\* step, a refused request included, the board is as it was.
TurnStep ==
  /\ current_player' # current_player <=> MoveSucceeded
  /\ MoveSucceeded => last_move'[2] \in Listed
  /\ ~MoveSucceeded => grid' = grid
  /\ (MoveRequested /\ ~MoveSucceeded) =>
       \E x \in Typed, y \in Typed :
         ~CheckersBoard_move_piece(grid, from_pos, <<x, y>>).ok

\* C21: in the checkers session the turn passes to the other color exactly
\* when CheckersBoard.move_piece returns True; for a destination in neither
\* the 'moves' nor the 'captures' list of the selected piece move_piece
\* returns False and the board and current_turn stay as they were.
C21_TurnPassesOnSuccess == []UnlistedRefused /\ [][TurnStep]_vars

\* After a move was accepted and the turn passed, a request of the other
\* player has been refused.
C21_RefusedAfterTurn ==
  /\ pc = "ck_start"
  /\ outcome = "rejected_move"
  /\ move_count > 0
  /\ current_player = "black"

\* ------------------------------------------------------------------------
\* Properties of both games
\* ------------------------------------------------------------------------

\* The step commits a move on the board: execute_move in chess, a successful
\* move_piece in checkers. last_move' is the move.
MoveCommitted ==
  \/ pc = "dest" /\ log' # log
  \/ pc = "ck_end" /\ move_count' # move_count

\* sq holds the pawn the committed chess move takes en passant: the pawn that
\* last_move brought two rows forward, beside the moving pawn, which goes to
\* the square that pawn passed over.
PassedPawn(sq) ==
  /\ get_piece(grid, last_move'[1]).kind = "Pawn"
  /\ get_piece(grid, sq).kind = "Pawn"
  /\ last_move # NoMove
  /\ last_move[2] = sq
  /\ sq[1] = last_move'[1][1]
  /\ last_move'[2][2] = sq[2]
  /\ 2 * last_move'[2][1] = last_move[1][1] + sq[1]
  /\ (last_move[1][1] - sq[1] = 2 \/ sq[1] - last_move[1][1] = 2)

\* sq is the square the committed checkers move jumps: the one between the
\* start and the end of the request, two rows and two columns apart.
JumpedSquare(sq) ==
  /\ 2 * sq[1] = last_move'[1][1] + last_move'[2][1]
  /\ 2 * sq[2] = last_move'[1][2] + last_move'[2][2]
  /\ (last_move'[2][1] - sq[1] = 1 \/ sq[1] - last_move'[2][1] = 1)
  /\ (last_move'[2][2] - sq[2] = 1 \/ sq[2] - last_move'[2][2] = 1)

\* The piece a committed move moves is one of the player to move, and it is
\* a piece of that player that stands on the destination afterwards.
OwnPieceMoved ==
  MoveCommitted =>
    /\ get_piece(grid, last_move'[1]).color = current_player
    /\ get_piece(grid', last_move'[2]).color = current_player

\* No piece of the other player arrives on a square or changes, and one that
\* leaves the board is taken by a committed move: on the destination or en
\* passant in chess, by the jump in checkers.
OpponentPiecesKept ==
  \/ grid' = grid
  \/ \A sq \in Squares :
       /\ get_piece(grid', sq).color = Opponent(current_player) =>
            get_piece(grid', sq) = get_piece(grid, sq)
       /\ (/\ get_piece(grid, sq).color = Opponent(current_player)
           /\ get_piece(grid', sq) # get_piece(grid, sq)) =>
            /\ MoveCommitted
            /\ pc = "dest" => (sq = last_move'[2] \/ PassedPawn(sq))
            /\ pc = "ck_end" => JumpedSquare(sq)

PiecesOf(b, color) == {sq \in Squares : b[sq[1]][sq[2]].color = color}

\* Every piece stands on a dark square.
DarkSquaresOnly ==
  \A sq \in Squares :
    grid[sq[1]][sq[2]] # NoChecker => (sq[1] + sq[2]) % 2 = 1

\* The rows between the start and the end of the move accepted in the step.
RowsMoved ==
  IF last_move'[2][1] > last_move'[1][1]
  THEN last_move'[2][1] - last_move'[1][1]
  ELSE last_move'[1][1] - last_move'[2][1]

\* One step of the session counted: no color gains a piece; an accepted move
\* of one row leaves both counts as they were, an accepted move of two rows,
\* a capture, takes exactly one piece of the other player; no other step
\* changes the board.
CountStep ==
  IF grid' = grid THEN move_count' = move_count
  ELSE /\ move_count' # move_count
       /\ RowsMoved \in {1, 2}
       /\ \A color \in Colors :
            Cardinality(PiecesOf(grid', color))
              <= Cardinality(PiecesOf(grid, color))
       /\ Cardinality(PiecesOf(grid', current_player))
            = Cardinality(PiecesOf(grid, current_player))
       /\ Cardinality(PiecesOf(grid', Opponent(current_player)))
            = Cardinality(PiecesOf(grid, Opponent(current_player)))
                - (RowsMoved - 1)

\* C23: in every checkers position reached from the initial layout by
\* successful move_piece calls every piece stands on a dark square, the
\* number of pieces of each color never grows, a simple move leaves the
\* numbers of pieces unchanged and a capture lowers the number of the
\* opponent's pieces by exactly one.
C23_DarkSquaresAndCounts == []DarkSquaresOnly /\ [][CountStep]_vars

\* White has made a simple move and a capture: eleven black pieces and
\* twelve white ones are left, with Black to move.
C23_CaptureCounted ==
  /\ pc = "ck_start"
  /\ move_count = 3
  /\ current_player = "black"
  /\ Cardinality(PiecesOf(grid, "black")) = 11
  /\ Cardinality(PiecesOf(grid, "white")) = 12

=============================================================================
